---- MODULE Spec2Model ----
(***************************************************************************)
(* JoinNode of the logical query plan (src/lib/logical_query_plan/         *)
(* join_node.cpp): construction, input wiring, the derived properties      *)
(* column_expressions(), is_column_nullable() and constraints(), and the   *)
(* shallow copy / equality / hash hooks.                                   *)
(*                                                                         *)
(* One join node is modelled together with the input nodes it can be wired *)
(* to.  The input nodes stand for any AbstractLQPNode: each has a column   *)
(* list, a nullability per column and a set of unique constraints.         *)
(***************************************************************************)
EXTENDS Integers, Sequences, FiniteSets, TLC

\* ---------------------------------------------------------------- bounds

\* Number of nodes available as inputs of the join.
NumInputs == 2
\* Largest number of columns of an input node.
MaxCols == 2
\* Longest join predicate list handed to the constructor.
MaxPredicates == 2

\* ------------------------------------------------------------ vocabulary

Nodes == 1..NumInputs

\* A null std::shared_ptr<AbstractLQPNode>.
NoNode == 0

JoinModes ==
  {"Inner", "Left", "Right", "FullOuter", "Cross", "Semi", "AntiNullAsTrue", "AntiNullAsFalse"}

\* Odd-numbered input nodes are wide, even-numbered ones have a single column.
ColumnCount(n) == IF n % 2 = 1 THEN MaxCols ELSE 1

\* LQPColumnExpression: (owning node, ColumnID).
LQPColumn(n, i) == <<n, i>>

\* column_expressions() of an input node: one LQPColumn per column.
InputColumnExpressions(n) == [i \in 1..ColumnCount(n) |-> LQPColumn(n, i - 1)]

Columns == UNION {{LQPColumn(n, i) : i \in 0..(ColumnCount(n) - 1)} : n \in Nodes}

\* The expressions used as join predicates.  type is the dynamic type of the
\* expression object, predicate_condition the member of a binary predicate.
Expression(t, c, l, r) ==
  [type |-> t, predicate_condition |-> c, left_operand |-> l, right_operand |-> r]

\* Join keys: the first column of each input node, compared across two nodes.
EqualsPredicates ==
  {Expression("BinaryPredicate", "Equals", LQPColumn(ns[1], 0), LQPColumn(ns[2], 0)) :
     ns \in {ms \in Nodes \X Nodes : ms[1] # ms[2]}} \cup
  {Expression("BinaryPredicate", "Equals", LQPColumn(1, MaxCols - 1), LQPColumn(2, 0))}

OtherPredicates ==
  {Expression("BinaryPredicate", "LessThan", LQPColumn(1, 0), LQPColumn(2, 0)),
   Expression("Logical", "Or", LQPColumn(1, 0), LQPColumn(2, 0))}

Predicates == EqualsPredicates \cup OtherPredicates

\* Predicate lists tried: none, every single predicate, and for each longer
\* length a list of equalities and a list of an equality and inequalities.
PredicateLists ==
  {<<>>} \cup {<<p>> : p \in Predicates} \cup
  UNION {{[i \in 1..len |-> Expression("BinaryPredicate", "Equals", LQPColumn(1, 0), LQPColumn(2, 0))],
          [i \in 1..len |-> Expression("BinaryPredicate", IF i = 1 THEN "Equals" ELSE "LessThan",
                                       LQPColumn(1, 0), LQPColumn(2, 0))]} :
           len \in 2..MaxPredicates}

\* Candidate unique constraints of an input node: its first column, all its columns.
KeyCandidates(n) ==
  {{LQPColumn(n, 0)}, {LQPColumn(n, i) : i \in 0..(ColumnCount(n) - 1)}}

NodeMappings == [Nodes -> Nodes]

\* ----------------------------------------------------------------- state

VARIABLES
  stored,            \* input node -> its set of unique constraints
  attached,          \* TRUE: constraints() of an input node hands out the set attached to
                     \* the node; FALSE: it builds a new set on every call
  nullable,          \* input node -> sequence of BOOLEAN, one per column
  join_mode,         \* JoinNode::join_mode
  node_expressions,  \* AbstractLQPNode::node_expressions, the join predicates
  left_input,        \* AbstractLQPNode left input (NoNode when unset)
  right_input,       \* AbstractLQPNode right input (NoNode when unset)
  op,                \* the last operation
  ret                \* what the last operation returned

vars == <<stored, attached, nullable, join_mode, node_expressions, left_input, right_input, op, ret>>

NoJoin == [mode |-> "none", preds |-> <<>>]

Blank ==
  [status |-> "ok", exprs |-> <<>>, flag |-> FALSE, cons |-> {}, node |-> NoJoin,
   mapping |-> <<>>, hash |-> 0, arg |-> 0]

\* The join node itself, as the receiver of the shallow hooks.
Self == [mode |-> join_mode, preds |-> node_expressions]

\* ---------------------------------------------------------- construction

\* JoinNode(JoinMode): the constructor without predicate.
\* The node built, or the failed Assert.
JoinNodeFromMode(init_join_mode) ==
  IF init_join_mode # "Cross"
  THEN [status |-> "InvariantViolation", node |-> NoJoin]
  ELSE [status |-> "ok", node |-> [mode |-> init_join_mode, preds |-> <<>>]]

\* Mutant of JoinNodeFromPredicates: the Assert on the mode is missing.
JoinNodeFromPredicatesAnyMode(init_join_mode, init_join_predicates) ==
  IF init_join_predicates = <<>>
  THEN [status |-> "InvariantViolation", node |-> NoJoin]
  ELSE [status |-> "ok", node |-> [mode |-> init_join_mode, preds |-> init_join_predicates]]

\* JoinNode(JoinMode, vector of predicates); the single-predicate constructor
\* delegates to it with a one-element vector.
JoinNodeFromPredicates(init_join_mode, init_join_predicates) ==
  IF init_join_mode = "Cross"
  THEN [status |-> "InvariantViolation", node |-> NoJoin]
  ELSE IF init_join_predicates = <<>>
  THEN [status |-> "InvariantViolation", node |-> NoJoin]
  ELSE [status |-> "ok", node |-> [mode |-> init_join_mode, preds |-> init_join_predicates]]

\* A constructor call: on success the new node, with no inputs, becomes the
\* node under study; a failed Assert produces no node.
\* ret keeps the arguments of the call (arg: the number of the constructor).
Constructed(made, init_join_mode, init_join_predicates, constructor) ==
  /\ op' = "JoinNode"
  /\ ret' = [Blank EXCEPT !.status = made.status, !.arg = constructor,
                          !.node = [mode |-> init_join_mode, preds |-> init_join_predicates]]
  /\ IF made.status = "ok"
     THEN /\ join_mode' = made.node.mode
          /\ node_expressions' = made.node.preds
          /\ left_input' = NoNode
          /\ right_input' = NoNode
     ELSE UNCHANGED <<join_mode, node_expressions, left_input, right_input>>
  /\ UNCHANGED <<stored, attached, nullable>>

\* The constructor calls tried: every mode with every predicate list.
ConstructorCalls == [mode : JoinModes, preds : PredicateLists]

\* The calls among them that keep to the constructors' contract.
ValidConstructorCalls ==
  {c \in ConstructorCalls : (c.preds = <<>>) <=> (c.mode = "Cross")}

\* JoinNode::make(mode), over the calls in Calls.
ConstructFromMode(Calls) ==
  \E c \in Calls :
    /\ c.preds = <<>>
    /\ Constructed(JoinNodeFromMode(c.mode), c.mode, <<>>, 1)

\* JoinNode::make(mode, predicates), over the calls in Calls.
ConstructFromPredicates(Calls) ==
  \E c \in Calls :
    Constructed(JoinNodeFromPredicates(c.mode, c.preds), c.mode, c.preds, 2)

\* ---------------------------------------------------------- input wiring

\* AbstractLQPNode::set_left_input / set_right_input (nullptr unsets).
SetLeftInput ==
  \E n \in Nodes \cup {NoNode} :
    /\ left_input' = n
    /\ op' = "set_left_input"
    /\ ret' = Blank
    /\ UNCHANGED <<stored, attached, nullable, join_mode, node_expressions, right_input>>

SetRightInput ==
  \E n \in Nodes \cup {NoNode} :
    /\ right_input' = n
    /\ op' = "set_right_input"
    /\ ret' = Blank
    /\ UNCHANGED <<stored, attached, nullable, join_mode, node_expressions, left_input>>

\* ------------------------------------------------------- output columns

\* Mutant of column_expressions: the anti joins output both inputs.
column_expressions_anti_outputs_both ==
  IF ~(left_input # NoNode /\ right_input # NoNode)
  THEN [status |-> "InvariantViolation", exprs |-> <<>>]
  ELSE
  LET left_expressions == InputColumnExpressions(left_input)
      right_expressions == InputColumnExpressions(right_input)
      output_both_inputs == join_mode # "Semi"
      size == Len(left_expressions) + (IF output_both_inputs THEN Len(right_expressions) ELSE 0)
  IN  [status |-> "ok",
       exprs |-> [i \in 1..size |->
                    IF i <= Len(left_expressions)
                    THEN left_expressions[i]
                    ELSE right_expressions[i - Len(left_expressions)]]]

\* JoinNode::column_expressions(): the Assert on the inputs, then the copy of
\* the left columns followed, for the modes that output both sides, by the right.
column_expressions ==
  IF ~(left_input # NoNode /\ right_input # NoNode)
  THEN [status |-> "InvariantViolation", exprs |-> <<>>]
  ELSE
  LET left_expressions == InputColumnExpressions(left_input)
      right_expressions == InputColumnExpressions(right_input)
      output_both_inputs ==
        join_mode # "Semi" /\ join_mode # "AntiNullAsTrue" /\ join_mode # "AntiNullAsFalse"
      size == Len(left_expressions) + (IF output_both_inputs THEN Len(right_expressions) ELSE 0)
  IN  [status |-> "ok",
       exprs |-> [i \in 1..size |->
                    IF i <= Len(left_expressions)
                    THEN left_expressions[i]
                    ELSE right_expressions[i - Len(left_expressions)]]]

CallColumnExpressions ==
  /\ op' = "column_expressions"
  /\ ret' = [Blank EXCEPT !.status = column_expressions.status,
                          !.exprs = column_expressions.exprs]
  /\ UNCHANGED <<stored, attached, nullable, join_mode, node_expressions, left_input, right_input>>

\* ----------------------------------------------------------- nullability

\* is_column_nullable() of an input node; it asserts the column exists.
InputIsColumnNullable(n, column_id) ==
  IF column_id < ColumnCount(n)
  THEN [status |-> "ok", flag |-> nullable[n][column_id + 1]]
  ELSE [status |-> "InvariantViolation", flag |-> FALSE]

\* Mutant of is_column_nullable: the outer joins make their own side nullable.
is_column_nullable_outer_sides_swapped(column_id) ==
  IF ~(left_input # NoNode /\ right_input # NoNode)
  THEN [status |-> "InvariantViolation", flag |-> FALSE]
  ELSE
  LET left_input_column_count == Len(InputColumnExpressions(left_input))
      column_is_from_left_input == column_id < left_input_column_count
  IN  IF join_mode = "Left" /\ column_is_from_left_input
      THEN [status |-> "ok", flag |-> TRUE]
      ELSE IF join_mode = "Right" /\ ~column_is_from_left_input
      THEN [status |-> "ok", flag |-> TRUE]
      ELSE IF join_mode = "FullOuter"
      THEN [status |-> "ok", flag |-> TRUE]
      ELSE IF column_is_from_left_input
      THEN InputIsColumnNullable(left_input, column_id)
      ELSE LET right_column_id == (column_id - (left_input_column_count % 65536)) % 65536
           IN  InputIsColumnNullable(right_input, right_column_id)

\* JoinNode::is_column_nullable(column_id).  ColumnID is a 16 bit unsigned
\* integer.
is_column_nullable(column_id) ==
  IF ~(left_input # NoNode /\ right_input # NoNode)
  THEN [status |-> "InvariantViolation", flag |-> FALSE]
  ELSE
  LET left_input_column_count == Len(InputColumnExpressions(left_input))
      column_is_from_left_input == column_id < left_input_column_count
  IN  IF join_mode = "Left" /\ ~column_is_from_left_input
      THEN [status |-> "ok", flag |-> TRUE]
      ELSE IF join_mode = "Right" /\ column_is_from_left_input
      THEN [status |-> "ok", flag |-> TRUE]
      ELSE IF join_mode = "FullOuter"
      THEN [status |-> "ok", flag |-> TRUE]
      ELSE IF column_is_from_left_input
      THEN InputIsColumnNullable(left_input, column_id)
      ELSE LET right_column_id == (column_id - (left_input_column_count % 65536)) % 65536
           IN  InputIsColumnNullable(right_input, right_column_id)

CallIsColumnNullable ==
  \E column_id \in 0..(2 * MaxCols) :
    /\ op' = "is_column_nullable"
    /\ ret' = LET r == is_column_nullable(column_id)
              IN  [Blank EXCEPT !.status = r.status, !.flag = r.flag, !.arg = column_id]
    /\ UNCHANGED <<stored, attached, nullable, join_mode, node_expressions, left_input, right_input>>

\* ----------------------------------------------------------- constraints

\* A std::shared_ptr<ExpressionsConstraintDefinitions> as returned by a
\* constraints() call: "ok" with the members of the set it points to, or
\* "nullptr".  extracted names the input nodes whose sets the call took the
\* members out of.
Constraints(cons, extracted) == [status |-> "ok", cons |-> cons, extracted |-> extracted]

NullConstraints == [status |-> "nullptr", cons |-> {}, extracted |-> {}]

\* constraints() of an input node.
InputConstraints(n) == stored[n]

\* AbstractLQPNode::has_unique_constraint on an input node.
has_unique_constraint(n, expressions) == expressions \in InputConstraints(n)

\* AbstractLQPNode::forward_constraints(): the union of the inputs' constraints.
forward_constraints ==
  IF left_input = NoNode
  THEN [status |-> "InvariantViolation", cons |-> {}, extracted |-> {}]
  ELSE Constraints(InputConstraints(left_input) \cup
                   (IF right_input = NoNode THEN {} ELSE InputConstraints(right_input)), {})

\* What a build can do after undefined behaviour in constraints(): die on the
\* invalid read, or carry on to one of the returns of the function.
UndefinedBehaviour ==
  {[status |-> "SIGSEGV", cons |-> {}, extracted |-> {}], NullConstraints, Constraints({}, {})}

\* Mutant of InnerJoinConstraints: with one unique side, the constraints of the
\* unique side are returned instead of those of the other side.
InnerJoinConstraintsOfUniqueSide(left_operand_unique, right_operand_unique) ==
  IF left_operand_unique /\ right_operand_unique
  THEN Constraints(InputConstraints(left_input) \cup InputConstraints(right_input),
                   {left_input, right_input})
  ELSE IF left_operand_unique
  THEN Constraints(InputConstraints(left_input), {})
  ELSE IF right_operand_unique
  THEN Constraints(InputConstraints(right_input), {})
  ELSE Constraints({}, {})

\* JoinMode::Inner branch of the switch in JoinNode::constraints().
InnerJoinConstraints(left_operand_unique, right_operand_unique) ==
  IF left_operand_unique /\ right_operand_unique
  THEN \* every member is extracted from the two input sets and emplaced
       Constraints(InputConstraints(left_input) \cup InputConstraints(right_input),
                   {left_input, right_input})
  ELSE IF left_operand_unique
  THEN Constraints(InputConstraints(right_input), {})
  ELSE IF right_operand_unique
  THEN Constraints(InputConstraints(left_input), {})
  ELSE Constraints({}, {})

\* The switch over join_mode in JoinNode::constraints().
ConstraintsByJoinMode(left_operand_unique, right_operand_unique) ==
  CASE join_mode = "Inner" -> InnerJoinConstraints(left_operand_unique, right_operand_unique)
    [] join_mode = "Left" -> Constraints({}, {})
    [] join_mode = "Right" -> Constraints({}, {})
    [] join_mode = "FullOuter" -> Constraints({}, {})
    [] join_mode = "Cross" -> Constraints({}, {})
    [] join_mode = "Semi" -> [status |-> "Fail", cons |-> {}, extracted |-> {}]
    [] join_mode = "AntiNullAsTrue" -> Constraints({}, {})
    [] join_mode = "AntiNullAsFalse" -> Constraints({}, {})

\* JoinNode::constraints(): the set of results the call can produce.
constraints ==
  IF join_mode = "Semi" THEN {forward_constraints}
  ELSE IF Len(node_expressions) > 1 THEN {Constraints({}, {})}
  ELSE IF node_expressions = <<>> THEN UndefinedBehaviour  \* front() of an empty vector
  ELSE LET join_predicate == node_expressions[1]
       IN  IF join_predicate.type # "BinaryPredicate" \/
              join_predicate.predicate_condition # "Equals"
           THEN {NullConstraints}  \* return {}
           ELSE IF left_input = NoNode \/ right_input = NoNode
           THEN UndefinedBehaviour  \* call through a null input
           ELSE {ConstraintsByJoinMode(
                   has_unique_constraint(left_input, {join_predicate.left_operand}),
                   has_unique_constraint(right_input, {join_predicate.right_operand}))}

\* A constraints() call.  Members extracted from a set that is attached to
\* an input node are gone from that node.
CallConstraints ==
  \E r \in constraints :
    /\ op' = "constraints"
    /\ ret' = [Blank EXCEPT !.status = r.status, !.cons = r.cons]
    /\ stored' = [n \in Nodes |-> IF n \in r.extracted /\ attached THEN {} ELSE stored[n]]
    /\ UNCHANGED <<attached, nullable, join_mode, node_expressions, left_input, right_input>>

\* ---------------------------------------------------------- shallow hooks

\* The numeric value of a JoinMode, which boost::hash_value hashes.
JoinModeValue(m) ==
  CASE m = "Inner" -> 0 [] m = "Left" -> 1 [] m = "Right" -> 2 [] m = "FullOuter" -> 3
    [] m = "Cross" -> 4 [] m = "Semi" -> 5 [] m = "AntiNullAsTrue" -> 6
    [] m = "AntiNullAsFalse" -> 7

\* An expression with its column references rewritten through the node mapping.
AdaptExpression(e, node_mapping) ==
  [e EXCEPT !.left_operand = LQPColumn(node_mapping[e.left_operand[1]], e.left_operand[2]),
            !.right_operand = LQPColumn(node_mapping[e.right_operand[1]], e.right_operand[2])]

\* expressions_copy_and_adapt_to_different_lqp
expressions_copy_and_adapt_to_different_lqp(expressions, node_mapping) ==
  [i \in 1..Len(expressions) |-> AdaptExpression(expressions[i], node_mapping)]

\* Mutant of expressions_equal_to_expressions_in_different_lqp: the expressions
\* are compared as they are, without the mapping.
expressions_equal_without_mapping(expressions_left, expressions_right, node_mapping) ==
  /\ Len(expressions_left) = Len(expressions_right)
  /\ \A i \in 1..Len(expressions_left) : expressions_left[i] = expressions_right[i]

\* expressions_equal_to_expressions_in_different_lqp: the left expressions,
\* adapted through the mapping, are the right expressions.
expressions_equal_to_expressions_in_different_lqp(expressions_left, expressions_right, node_mapping) ==
  /\ Len(expressions_left) = Len(expressions_right)
  /\ \A i \in 1..Len(expressions_left) :
       AdaptExpression(expressions_left[i], node_mapping) = expressions_right[i]

\* JoinNode::_on_shallow_hash of a join node.
_on_shallow_hash(this) == JoinModeValue(this.mode)

\* JoinNode::_on_shallow_copy of a join node: the constructor call it makes.
_on_shallow_copy(this, node_mapping) ==
  IF this.preds # <<>>
  THEN JoinNodeFromPredicates(
         this.mode, expressions_copy_and_adapt_to_different_lqp(this.preds, node_mapping))
  ELSE JoinNodeFromMode(this.mode)

\* Mutant of _on_shallow_equals: the join modes are not compared.
_on_shallow_equals_predicates_only(this, rhs, node_mapping) ==
  expressions_equal_to_expressions_in_different_lqp(this.preds, rhs.preds, node_mapping)

\* JoinNode::_on_shallow_equals of a join node against the join node rhs.
_on_shallow_equals(this, rhs, node_mapping) ==
  IF this.mode # rhs.mode THEN FALSE
  ELSE expressions_equal_to_expressions_in_different_lqp(this.preds, rhs.preds, node_mapping)

\* Join nodes compared with the node under study: its copy under the mapping,
\* the same predicates under every other mode, and its own predicates unmapped.
RhsNodes(node_mapping) ==
  {n \in [mode : JoinModes,
          preds : {node_expressions,
                   expressions_copy_and_adapt_to_different_lqp(node_expressions, node_mapping),
                   <<>>}] : (n.preds = <<>>) <=> (n.mode = "Cross")}

CallShallowCopy ==
  \E node_mapping \in NodeMappings :
    /\ op' = "shallow_copy"
    /\ ret' = LET r == _on_shallow_copy(Self, node_mapping)
              IN  [Blank EXCEPT !.status = r.status, !.node = r.node, !.mapping = node_mapping]
    /\ UNCHANGED <<stored, attached, nullable, join_mode, node_expressions, left_input, right_input>>

\* shallow_equals against any join node.
CallShallowEquals ==
  \E node_mapping \in NodeMappings :
    \E rhs \in RhsNodes(node_mapping) :
      /\ op' = "shallow_equals"
      /\ ret' = [Blank EXCEPT !.flag = _on_shallow_equals(Self, rhs, node_mapping),
                              !.node = rhs, !.mapping = node_mapping]
      /\ UNCHANGED <<stored, attached, nullable, join_mode, node_expressions, left_input, right_input>>

\* shallow_equals against the copy just made, under the mapping of the copy.
CallShallowEqualsCopy ==
  /\ op = "shallow_copy"
  /\ ret.status = "ok"
  /\ op' = "shallow_equals_copy"
  /\ ret' = [ret EXCEPT !.flag = _on_shallow_equals(Self, ret.node, ret.mapping)]
  /\ UNCHANGED <<stored, attached, nullable, join_mode, node_expressions, left_input, right_input>>

\* shallow_equals of the copy just made against the node it was copied from,
\* under the mapping of the copy: the copy is the receiver.
CallCopyShallowEquals ==
  /\ op = "shallow_copy"
  /\ ret.status = "ok"
  /\ op' = "copy_shallow_equals"
  /\ ret' = [ret EXCEPT !.flag = _on_shallow_equals(ret.node, Self, ret.mapping)]
  /\ UNCHANGED <<stored, attached, nullable, join_mode, node_expressions, left_input, right_input>>

\* shallow_hash of the node under study.
CallShallowHash ==
  /\ op' = "shallow_hash"
  /\ ret' = [Blank EXCEPT !.hash = _on_shallow_hash(Self)]
  /\ UNCHANGED <<stored, attached, nullable, join_mode, node_expressions, left_input, right_input>>

\* shallow_hash of the copy just made.
CallShallowHashCopy ==
  /\ op = "shallow_copy"
  /\ ret.status = "ok"
  /\ op' = "shallow_hash_copy"
  /\ ret' = [ret EXCEPT !.hash = _on_shallow_hash(ret.node)]
  /\ UNCHANGED <<stored, attached, nullable, join_mode, node_expressions, left_input, right_input>>

\* -------------------------------------------------------- specifications

\* The join nodes the constructors produce.
ConstructibleJoins ==
  {j \in [mode : JoinModes, preds : PredicateLists] :
     \/ JoinNodeFromMode(j.mode) = [status |-> "ok", node |-> j]
     \/ JoinNodeFromPredicates(j.mode, j.preds) = [status |-> "ok", node |-> j]}

\* A freshly constructed join node, no input set.
InitJoin ==
  /\ \E j \in ConstructibleJoins :
       /\ join_mode = j.mode
       /\ node_expressions = j.preds
  /\ left_input = NoNode
  /\ right_input = NoNode
  /\ op = "JoinNode"
  /\ ret = [Blank EXCEPT !.node = Self, !.arg = IF node_expressions = <<>> THEN 1 ELSE 2]

\* Input nodes with NOT NULL columns and any declared unique constraints.
Init ==
  /\ stored \in [Nodes -> SUBSET (UNION {KeyCandidates(n) : n \in Nodes})]
  /\ \A n \in Nodes : stored[n] \subseteq KeyCandidates(n)
  /\ attached \in BOOLEAN
  /\ nullable = [n \in Nodes |-> [i \in 1..ColumnCount(n) |-> FALSE]]
  /\ InitJoin

\* Input nodes without unique constraints and any nullability of their columns.
NullabilityChoices(n) ==
  {[i \in 1..ColumnCount(n) |-> FALSE], [i \in 1..ColumnCount(n) |-> TRUE],
   [i \in 1..ColumnCount(n) |-> i % 2 = 0]}

InitSchema ==
  /\ stored = [n \in Nodes |-> {}]
  /\ attached = FALSE
  /\ nullable \in [Nodes -> UNION {NullabilityChoices(n) : n \in Nodes}]
  /\ \A n \in Nodes : nullable[n] \in NullabilityChoices(n)
  /\ InitJoin

InitCopy ==
  /\ stored = [n \in Nodes |-> {}]
  /\ attached = FALSE
  /\ nullable = [n \in Nodes |-> [i \in 1..ColumnCount(n) |-> FALSE]]
  /\ InitJoin

\* Constraint propagation.
Next ==
  \/ ConstructFromMode(ValidConstructorCalls)
  \/ ConstructFromPredicates(ValidConstructorCalls)
  \/ SetLeftInput
  \/ SetRightInput
  \/ CallConstraints

Spec == Init /\ [][Next]_vars

\* Output columns and their nullability.
NextSchema ==
  \/ ConstructFromMode(ValidConstructorCalls)
  \/ ConstructFromPredicates(ValidConstructorCalls)
  \/ SetLeftInput
  \/ SetRightInput
  \/ CallColumnExpressions
  \/ CallIsColumnNullable

SpecSchema == InitSchema /\ [][NextSchema]_vars

\* Shallow copy, equality and hash.
NextCopy ==
  \/ ConstructFromMode(ConstructorCalls)
  \/ ConstructFromPredicates(ConstructorCalls)
  \/ CallShallowCopy
  \/ CallShallowEquals
  \/ CallShallowEqualsCopy
  \/ CallCopyShallowEquals
  \/ CallShallowHash
  \/ CallShallowHashCopy

SpecCopy == InitCopy /\ [][NextCopy]_vars

\* ----------------------------------------------------------------- claims

BothInputsSet == left_input # NoNode /\ right_input # NoNode

IsEquals(e) == e.type = "BinaryPredicate" /\ e.predicate_condition = "Equals"

SingleEquals == Len(node_expressions) = 1 /\ IsEquals(node_expressions[1])

\* An Inner join on a single predicate L.a = R.b, a a column of the left
\* input and b a column of the right input.
InnerEquiJoin ==
  /\ join_mode = "Inner"
  /\ SingleEquals
  /\ BothInputsSet
  /\ node_expressions[1].left_operand[1] = left_input
  /\ node_expressions[1].right_operand[1] = right_input

KeyA == node_expressions[1].left_operand

KeyB == node_expressions[1].right_operand

\* C1: a constraints() call on an Inner join with the single predicate
\* L.a = R.b returns, of the inputs' constraints at the call, the union of both
\* when {a} and {b} are unique, the right input's when only {a} is, the left
\* input's when only {b} is, and the empty set when neither is.
C1_InnerEquiJoinConstraints ==
  [][(InnerEquiJoin /\ op' = "constraints") =>
       /\ ret'.status = "ok"
       /\ ret'.cons =
            IF {KeyA} \in stored[left_input] /\ {KeyB} \in stored[right_input]
            THEN stored[left_input] \cup stored[right_input]
            ELSE IF {KeyA} \in stored[left_input] THEN stored[right_input]
            ELSE IF {KeyB} \in stored[right_input] THEN stored[left_input]
            ELSE {}]_vars

\* C1 witness: a call returned the constraints of the right input alone, which
\* has a composite key and no key on b, because {a} is unique on the left.
C1_Witness ==
  /\ op = "constraints"
  /\ InnerEquiJoin
  /\ {KeyA} \in stored[left_input]
  /\ {KeyB} \notin stored[right_input]
  /\ stored[right_input] # {}
  /\ ret.cons = stored[right_input]
  /\ ret.cons # stored[left_input]

\* C2: constraints() of a Semi join is exactly the left input's constraints.
C2_SemiJoinForwardsLeft ==
  (op = "constraints" /\ join_mode = "Semi" /\ BothInputsSet) =>
    (ret.status = "ok" /\ ret.cons = stored[left_input])

\* C3: a join that is neither Semi nor Cross returns a constraint set, and a
\* non-empty one only when it is an Inner join on a single Equals predicate.
C3_OtherShapesReturnEmptySet ==
  (op = "constraints" /\ join_mode \notin {"Semi", "Cross"} /\ BothInputsSet) =>
    /\ ret.status = "ok"
    /\ ret.cons # {} => (join_mode = "Inner" /\ SingleEquals)

\* C4: constraints() of a Cross join with both inputs set completes and
\* returns the empty set.
C4_CrossJoinReturnsEmptySet ==
  (op = "constraints" /\ join_mode = "Cross" /\ BothInputsSet) =>
    (ret.status = "ok" /\ ret.cons = {})

OutputsBothInputs == join_mode \in {"Inner", "Left", "Right", "FullOuter", "Cross"}

\* C5: with both inputs set, column_expressions() is the current left input's
\* columns followed by the current right input's for Inner, Left, Right,
\* FullOuter and Cross, and the current left input's columns alone for Semi
\* and the two anti joins.
C5_ColumnExpressionsFromLiveInputs ==
  (op = "column_expressions" /\ BothInputsSet) =>
    /\ ret.status = "ok"
    /\ ret.exprs = IF OutputsBothInputs
                   THEN InputColumnExpressions(left_input) \o InputColumnExpressions(right_input)
                   ELSE InputColumnExpressions(left_input)

\* C5 witness: the columns of a join whose left input is the narrow node and
\* whose right input is the wide one, the reverse of the order of the nodes.
C5_Witness ==
  /\ op = "column_expressions"
  /\ join_mode = "Right"
  /\ left_input = 2
  /\ right_input = 1
  /\ Len(ret.exprs) = 1 + MaxCols
  /\ ret.exprs[1] = LQPColumn(2, 0)
  /\ ret.exprs[2] = LQPColumn(1, 0)

OutputColumnCount ==
  ColumnCount(left_input) + (IF OutputsBothInputs THEN ColumnCount(right_input) ELSE 0)

\* C6: for every column_id below the number of output columns,
\* is_column_nullable(column_id) is defined: TRUE for a right-side column of a
\* Left join, a left-side column of a Right join and every column of a
\* FullOuter join, and otherwise what the owning input reports at its own
\* index, which lies in that input's column range.
C6_NullabilityOfOutputColumns ==
  (op = "is_column_nullable" /\ BothInputsSet /\ ret.arg < OutputColumnCount) =>
    /\ ret.status = "ok"
    /\ ret.flag =
         IF join_mode = "Left" /\ ret.arg >= ColumnCount(left_input) THEN TRUE
         ELSE IF join_mode = "Right" /\ ret.arg < ColumnCount(left_input) THEN TRUE
         ELSE IF join_mode = "FullOuter" THEN TRUE
         ELSE IF ret.arg < ColumnCount(left_input) THEN nullable[left_input][ret.arg + 1]
         ELSE /\ ret.arg - ColumnCount(left_input) < ColumnCount(right_input)
              /\ nullable[right_input][ret.arg - ColumnCount(left_input) + 1]

\* C6 witness: a NOT NULL column of the right input is nullable in a Left
\* join, and a nullable column of the right input of an Inner join is reported
\* at the index shifted by the left column count.
C6_Witness ==
  /\ op = "is_column_nullable"
  /\ BothInputsSet
  /\ ret.arg >= ColumnCount(left_input)
  /\ ret.arg < OutputColumnCount
  /\ ret.flag
  /\ \/ join_mode = "Left" /\ ~nullable[right_input][ret.arg - ColumnCount(left_input) + 1]
     \/ join_mode = "Inner" /\ ret.arg - ColumnCount(left_input) = 1

CrossIffNoPredicates(j) == (j.preds = <<>>) <=> (j.mode = "Cross")

\* C7: the join node has no predicate exactly when it is a Cross join; a
\* constructor call with a non-Cross mode and no predicate, or with Cross and
\* predicates, fails; every node a constructor or a shallow copy produces has
\* no predicate exactly when it is a Cross join.
C7_CrossIffNoPredicates ==
  /\ CrossIffNoPredicates(Self)
  /\ op = "JoinNode" =>
       /\ ~CrossIffNoPredicates(ret.node) => ret.status = "InvariantViolation"
       /\ ret.status = "ok" => (CrossIffNoPredicates(ret.node) /\ ret.node = Self)
  /\ op = "shallow_copy" => (ret.status = "ok" /\ CrossIffNoPredicates(ret.node))

\* C7 witness: the constructor was called for a Cross join with a predicate
\* and failed, leaving a valid node.
C7_Witness ==
  /\ op = "JoinNode"
  /\ ret.node.mode = "Cross"
  /\ ret.node.preds # <<>>
  /\ ret.status = "InvariantViolation"
  /\ join_mode # "Cross"

\* C8: column_expressions(), is_column_nullable() and constraints() fail with
\* an InvariantViolation when the left or the right input is not set.
C8_QueriesAssertInputs ==
  (op \in {"column_expressions", "is_column_nullable", "constraints"} /\ ~BothInputsSet) =>
    ret.status = "InvariantViolation"

\* C9: a constraints() call leaves the constraint sets of the inputs unchanged.
C9_ConstraintsIsPureRead ==
  [][op' = "constraints" => stored' = stored]_vars

\* The shallow copy keeps the mode and the number of predicates and has the
\* hash of the node; join nodes of different modes are never shallow-equal.
ShallowCopyKeepsModeAndHash ==
  /\ op = "shallow_copy" =>
       /\ ret.status = "ok"
       /\ ret.node.mode = join_mode
       /\ Len(ret.node.preds) = Len(node_expressions)
  /\ op = "shallow_hash_copy" => ret.hash = _on_shallow_hash(Self)
  /\ (op = "shallow_equals" /\ ret.node.mode # join_mode) => ~ret.flag

\* The input nodes the columns of the join predicates belong to.
ReferencedNodes ==
  UNION {{node_expressions[i].left_operand[1], node_expressions[i].right_operand[1]} :
           i \in 1..Len(node_expressions)}

\* The mapping leads every node the predicates reference back to itself when
\* applied twice; the identity mapping does.
SelfInverseOnReferences(node_mapping) ==
  \A n \in ReferencedNodes : node_mapping[node_mapping[n]] = n

\* C10 as claimed: the shallow copy of a join node under any mapping has the
\* node's mode, number of predicates and shallow hash, the copy and the node
\* are shallow-equal under that mapping whichever of the two is the receiver,
\* and join nodes of different modes are never shallow-equal.
C10_ShallowEqualsUnderEveryMapping ==
  /\ ShallowCopyKeepsModeAndHash
  /\ op = "shallow_equals_copy" => ret.flag
  /\ op = "copy_shallow_equals" => ret.flag

\* C10 amended: the shallow copy of a join node under any mapping has the
\* node's mode, number of predicates and shallow hash; the node shallow-equals
\* its copy under every mapping; the copy shallow-equals the node exactly under
\* the mappings that lead every node the predicates reference back to itself
\* when applied twice; join nodes of different modes are never shallow-equal.
C10_ShallowEqualsUnderSelfInverseMapping ==
  /\ ShallowCopyKeepsModeAndHash
  /\ op = "shallow_equals_copy" => ret.flag
  /\ op = "copy_shallow_equals" => (ret.flag <=> SelfInverseOnReferences(ret.mapping))

\* C10 witness: the copy, as the receiver, was found shallow-equal to the node
\* under a mapping that rewrote the column references of the predicates.
C10_Witness ==
  /\ op = "copy_shallow_equals"
  /\ ret.flag
  /\ ret.node.preds # node_expressions
  /\ node_expressions # <<>>

\* What constraints() returns, on the same inputs, for the join whose single
\* predicate has the two operands written in the other order, R.b = L.a.
ConstraintsWithOperandsSwapped ==
  ConstraintsByJoinMode(has_unique_constraint(left_input, {KeyB}),
                        has_unique_constraint(right_input, {KeyA}))

\* C11: a constraints() call on an Inner join with the single predicate
\* L.a = R.b returns the constraint set that the join on R.b = L.a returns
\* on the same inputs.
C11_OperandOrderDoesNotMatter ==
  [][(InnerEquiJoin /\ op' = "constraints") =>
       /\ ret'.status = ConstraintsWithOperandsSwapped.status
       /\ ret'.cons = ConstraintsWithOperandsSwapped.cons]_vars

====
